---------------------------- MODULE Spec2Model ----------------------------
(***************************************************************************)
(* Model of src/main.py: the /execute endpoint of the TechNova assistant.  *)
(* A query string is matched against the ordered table FUNCTION_RULES; the *)
(* first rule whose pattern matches at offset 0 decides the response.      *)
(*                                                                         *)
(* Strings are sequences of one-character strings, so that pattern         *)
(* matching, int() and json.dumps() are computed character by character.   *)
(* An optional value (Optional[str], an unmatched capture group) is the    *)
(* record [some |-> BOOLEAN, s |-> string].                                *)
(***************************************************************************)
EXTENDS Integers, Sequences, FiniteSets, TLC

VARIABLES
    FUNCTION_RULES,      \* the module-level rule table (src/main.py:25)
    int_max_str_digits,  \* the interpreter's sys.get_int_max_str_digits()
    requests             \* per connection: the request in flight and its response

vars == <<FUNCTION_RULES, int_max_str_digits, requests>>

---------------------------------------------------------------------------
(* Optional values.                                                        *)

None == [some |-> FALSE, s |-> <<>>]

Some(s) == [some |-> TRUE, s |-> s]

---------------------------------------------------------------------------
(* Regular expressions (module re).  A compiled pattern is a sequence of   *)
(* items: a literal text, or a capture group around one character class    *)
(* under a greedy quantifier; opt marks a group followed by "?".           *)

\* The digits of the queries of the model (the ASCII digits).
DigitChars == {"0", "1", "2", "3", "4", "5", "6", "7", "8", "9"}

\* The character classes the patterns use, named by their regex source.
InClass(cls, c) ==
    CASE cls = "\\d"       -> c \in DigitChars
      [] cls = "[\\d\\-]"  -> c \in DigitChars \cup {"-"}
      [] cls = "[\\d:]"    -> c \in DigitChars \cup {":"}
      [] cls = "."         -> c # "\n"
      [] OTHER             -> FALSE

Lit(text) ==
    [kind |-> "lit", text |-> text, cls |-> "", quant |-> "", opt |-> FALSE]

Group(cls, quant) ==
    [kind |-> "group", text |-> <<>>, cls |-> cls, quant |-> quant, opt |-> FALSE]

OptGroup(cls, quant) ==
    [kind |-> "group", text |-> <<>>, cls |-> cls, quant |-> quant, opt |-> TRUE]

\* Fewest repetitions the quantifier accepts.
QuantMin(quant) ==
    CASE quant = "+"   -> 1
      [] quant = "*"   -> 0
      [] quant = "{4}" -> 4

\* Most repetitions the quantifier takes out of a run of `run` class characters.
QuantMax(quant, run) ==
    IF quant = "{4}" /\ run > 4 THEN 4 ELSE run

\* Number of consecutive characters of class cls in q after offset pos.
RunLength(cls, q, pos) ==
    LET stop == CHOOSE j \in (pos + 1)..(Len(q) + 1) :
                    /\ (j = Len(q) + 1 \/ ~InClass(cls, q[j]))
                    /\ \A k \in (pos + 1)..(j - 1) : InClass(cls, q[k])
    IN  stop - pos - 1

\* The literal text stands in q at offset pos.
LitAt(text, q, pos) ==
    /\ pos + Len(text) <= Len(q)
    /\ SubSeq(q, pos + 1, pos + Len(text)) = text

NoMatch == [ok |-> FALSE, groups |-> <<>>, end |-> 0]

\* Backtracking match of items k.. against q from offset pos.  A greedy group
\* takes the longest repetition after which the rest of the pattern matches;
\* an optional group that cannot take part is skipped and captures None.
\* groups is match.groups(), end is match.end().
RECURSIVE MatchFrom(_, _, _, _)
MatchFrom(items, k, q, pos) ==
    IF k > Len(items) THEN [ok |-> TRUE, groups |-> <<>>, end |-> pos]
    ELSE LET it == items[k] IN
         IF it.kind = "lit"
         THEN IF LitAt(it.text, q, pos)
              THEN MatchFrom(items, k + 1, q, pos + Len(it.text))
              ELSE NoMatch
         ELSE LET run  == RunLength(it.cls, q, pos)
                  good == {n \in QuantMin(it.quant)..QuantMax(it.quant, run) :
                              MatchFrom(items, k + 1, q, pos + n).ok}
              IN  IF good # {}
                  THEN LET n    == CHOOSE m \in good : \A o \in good : o <= m
                           rest == MatchFrom(items, k + 1, q, pos + n)
                       IN  [ok |-> TRUE,
                            groups |-> <<Some(SubSeq(q, pos + 1, pos + n))>>
                                          \o rest.groups,
                            end |-> rest.end]
                  ELSE IF it.opt
                  THEN LET rest == MatchFrom(items, k + 1, q, pos)
                       IN  IF rest.ok
                           THEN [ok |-> TRUE, groups |-> <<None>> \o rest.groups,
                                 end |-> rest.end]
                           ELSE NoMatch
                  ELSE NoMatch

\* A match that must also use up the whole query (pattern.fullmatch in place
\* of pattern.match).
PatternMatchToEnd(pattern, q) ==
    LET m == MatchFrom(pattern, 1, q, 0) IN
    IF m.ok /\ m.end = Len(q) THEN m ELSE NoMatch

\* pattern.match(q): the pattern matches a prefix of q (offset 0, no end anchor).
PatternMatch(pattern, q) == MatchFrom(pattern, 1, q, 0)

---------------------------------------------------------------------------
(* The literal texts of the five default patterns.                         *)

\* src/main.py:28  'What is the status of ticket '
TextTicket ==
    <<"W","h","a","t"," ","i","s"," ","t","h","e"," ","s","t","a","t",
      "u","s"," ","o","f"," ","t","i","c","k","e","t"," ">>
\* src/main.py:35  'Schedule a meeting on '
TextMeetingOn ==
    <<"S","c","h","e","d","u","l","e"," ","a"," ","m","e","e","t","i",
      "n","g"," ","o","n"," ">>
\* src/main.py:35  ' at '
TextAt ==
    <<" ","a","t"," ">>
\* src/main.py:35  ' in '
TextIn ==
    <<" ","i","n"," ">>
\* src/main.py:42  'Show my expense balance for employee '
TextExpense ==
    <<"S","h","o","w"," ","m","y"," ","e","x","p","e","n","s","e"," ",
      "b","a","l","a","n","c","e"," ","f","o","r"," ","e","m","p","l",
      "o","y","e","e"," ">>
\* src/main.py:49  'Calculate performance bonus for employee '
TextBonus ==
    <<"C","a","l","c","u","l","a","t","e"," ","p","e","r","f","o","r",
      "m","a","n","c","e"," ","b","o","n","u","s"," ","f","o","r"," ",
      "e","m","p","l","o","y","e","e"," ">>
\* src/main.py:49  ' for '
TextFor ==
    <<" ","f","o","r"," ">>
\* src/main.py:56  'Report office issue '
TextIssue ==
    <<"R","e","p","o","r","t"," ","o","f","f","i","c","e"," ","i","s",
      "s","u","e"," ">>
\* src/main.py:56  ' for the '
TextForThe ==
    <<" ","f","o","r"," ","t","h","e"," ">>
\* src/main.py:56  ' department.'
TextDepartment ==
    <<" ","d","e","p","a","r","t","m","e","n","t",".">>

---------------------------------------------------------------------------
(* The rule table: (pattern, func_name, arg_names, arg_types).             *)

Rule(pattern, func_name, arg_names, arg_types) ==
    [pattern |-> pattern, func_name |-> func_name,
     arg_names |-> arg_names, arg_types |-> arg_types]

\* The ticket rule with (.+) written for (\d+).
TicketRuleAnyText ==
    Rule(<<Lit(TextTicket), Group(".", "+"), Lit(<<"?">>)>>,
         "get_ticket_status", <<"ticket_id">>, <<"int">>)

\* r"What is the status of ticket (\d+)\?"
TicketRule ==
    Rule(<<Lit(TextTicket), Group("\\d", "+"), Lit(<<"?">>)>>,
         "get_ticket_status", <<"ticket_id">>, <<"int">>)

\* r"Schedule a meeting on ([\d\-]+) at ([\d:]+) in (.*)\."
MeetingRule ==
    Rule(<<Lit(TextMeetingOn), Group("[\\d\\-]", "+"), Lit(TextAt),
           Group("[\\d:]", "+"), Lit(TextIn), Group(".", "*"), Lit(<<".">>)>>,
         "schedule_meeting", <<"date", "time", "meeting_room">>,
         <<"str", "str", "str">>)

\* r"Show my expense balance for employee (\d+)\."
ExpenseRule ==
    Rule(<<Lit(TextExpense), Group("\\d", "+"), Lit(<<".">>)>>,
         "get_expense_balance", <<"employee_id">>, <<"int">>)

\* r"Calculate performance bonus for employee (\d+) for (\d{4})\."
BonusRule ==
    Rule(<<Lit(TextBonus), Group("\\d", "+"), Lit(TextFor),
           Group("\\d", "{4}"), Lit(<<".">>)>>,
         "calculate_performance_bonus", <<"employee_id", "current_year">>,
         <<"int", "int">>)

\* r"Report office issue (\d+) for the (.*) department\."
IssueRule ==
    Rule(<<Lit(TextIssue), Group("\\d", "+"), Lit(TextForThe),
           Group(".", "*"), Lit(TextDepartment)>>,
         "report_office_issue", <<"issue_code", "department">>,
         <<"int", "str">>)

\* The table with the expense rule's pattern cut from the bonus rule's.
DefaultRulesOverlapping ==
    <<TicketRule, MeetingRule,
      Rule(<<Lit(TextBonus), Group("\\d", "+")>>,
           "get_expense_balance", <<"employee_id">>, <<"int">>),
      BonusRule, IssueRule>>

DefaultRules == <<TicketRule, MeetingRule, ExpenseRule, BonusRule, IssueRule>>

---------------------------------------------------------------------------
(* Python values and the conversions the handler applies.                  *)
(* A Python int is unbounded; it is held as its canonical base-10 numeral  *)
(* (no leading zeros, "-" for a negative value), which is also the text    *)
(* json.dumps writes for it.                                                *)

\* sys.int_info.default_max_str_digits of CPython >= 3.11: int(str) raises
\* ValueError for more digits than this.  0 stands for "no limit" (older
\* interpreters, or the limit switched off).
IntMaxStrDigits == 4300

WhitespaceChars == {" ", "\t", "\n", "\r"}

PyValue(type, v) == [type |-> type, v |-> v]

Raised(exc) == [exc |-> exc, val |-> PyValue("", <<>>)]

Returned(val) == [exc |-> "", val |-> val]

\* int(x) for a capture x under the interpreter's digit limit.  None is a
\* TypeError.  A string is stripped of surrounding whitespace, may carry one
\* sign, and must then be digits, single underscores allowed between digits;
\* anything else, or more digits than the limit, is a ValueError.
PyInt(x, limit) ==
    IF ~x.some THEN Raised("TypeError")
    ELSE
    LET s      == x.s
        first  == CHOOSE i \in 1..(Len(s) + 1) :
                      /\ (i = Len(s) + 1 \/ s[i] \notin WhitespaceChars)
                      /\ \A j \in 1..(i - 1) : s[j] \in WhitespaceChars
        last   == CHOOSE i \in 0..Len(s) :
                      /\ (i = 0 \/ s[i] \notin WhitespaceChars)
                      /\ \A j \in (i + 1)..Len(s) : s[j] \in WhitespaceChars
        signed == first <= last /\ s[first] \in {"+", "-"}
        body   == SubSeq(s, IF signed THEN first + 1 ELSE first, last)
        wellformed ==
            /\ Len(body) >= 1
            /\ \A i \in 1..Len(body) :
                  \/ body[i] \in DigitChars
                  \/ /\ body[i] = "_"
                     /\ 1 < i /\ i < Len(body)
                     /\ body[i - 1] \in DigitChars
                     /\ body[i + 1] \in DigitChars
        digits == SelectSeq(body, LAMBDA c : c \in DigitChars)
        lead   == CHOOSE i \in 1..(Len(digits) + 1) :
                      /\ (i = Len(digits) + 1 \/ digits[i] # "0")
                      /\ \A j \in 1..(i - 1) : digits[j] = "0"
        magnitude == IF lead > Len(digits) THEN <<"0">>
                     ELSE SubSeq(digits, lead, Len(digits))
        numeral   == IF signed /\ s[first] = "-" /\ magnitude # <<"0">>
                     THEN <<"-">> \o magnitude ELSE magnitude
    IN  IF ~wellformed THEN Raised("ValueError")
        ELSE IF limit > 0 /\ Len(digits) > limit THEN Raised("ValueError")
        ELSE Returned(PyValue("int", numeral))

\* str(x): a string is returned as it is, None becomes the text "None".
PyStr(x) ==
    Returned(PyValue("str", IF x.some THEN x.s ELSE <<"N", "o", "n", "e">>))

\* Every capture kept as a string, whatever its declared type.
ApplyTypeStr(type, x, limit) == PyStr(x)

\* arg_types[i](value): the type tag applied as a constructor.
ApplyType(type, x, limit) ==
    IF type = "int" THEN PyInt(x, limit) ELSE PyStr(x)

\* arguments[name] = value on an insertion-ordered dict: a known key keeps
\* its position and takes the new value, a new key goes last.
DictSet(d, key, value) ==
    IF \E i \in 1..Len(d) : d[i].key = key
    THEN [i \in 1..Len(d) |->
             IF d[i].key = key THEN [key |-> key, value |-> value] ELSE d[i]]
    ELSE Append(d, [key |-> key, value |-> value])

\* The loop of lines 84-86 from position i (1-based): an index past the end
\* of arg_types or of the captured groups is an IndexError, and an exception
\* leaves the loop with the mapping unfinished.
RECURSIVE CoerceFrom(_, _, _, _, _)
CoerceFrom(rule, groups, i, arguments, limit) ==
    IF i > Len(rule.arg_names) THEN [exc |-> "", arguments |-> arguments]
    ELSE IF i > Len(rule.arg_types) \/ i > Len(groups)
    THEN [exc |-> "IndexError", arguments |-> arguments]
    ELSE LET c == ApplyType(rule.arg_types[i], groups[i], limit) IN
         IF c.exc # "" THEN [exc |-> c.exc, arguments |-> arguments]
         ELSE CoerceFrom(rule, groups, i + 1,
                         DictSet(arguments, rule.arg_names[i], c.val), limit)

\* The characters json.dumps writes for one character of a string.
JsonEscape(c) ==
    CASE c = "\""  -> <<"\\", "\"">>
      [] c = "\\"  -> <<"\\", "\\">>
      [] c = "\n"  -> <<"\\", "n">>
      [] c = "\t"  -> <<"\\", "t">>
      [] c = "\r"  -> <<"\\", "r">>
      [] OTHER     -> <<c>>

RECURSIVE JsonString(_)
JsonString(s) ==
    IF s = <<>> THEN <<>> ELSE JsonEscape(Head(s)) \o JsonString(Tail(s))

JsonValue(val) ==
    IF val.type = "int" THEN val.v
    ELSE <<"\"">> \o JsonString(val.v) \o <<"\"">>

RECURSIVE JsonItems(_, _)
JsonItems(d, i) ==
    IF i > Len(d) THEN <<>>
    ELSE (IF i > 1 THEN <<",", " ">> ELSE <<>>)
         \o <<"\"", d[i].key, "\"", ":", " ">> \o JsonValue(d[i].value)
         \o JsonItems(d, i + 1)

\* json.dumps(arguments): the JSON text as a sequence of its pieces (a key is
\* one piece, every other piece one character).
JsonDumps(d) == <<"{">> \o JsonItems(d, 1) \o <<"}">>

---------------------------------------------------------------------------
(* The endpoint.                                                           *)

\* raise HTTPException(status_code, detail)
HTTPException(status_code, detail) ==
    [status_code |-> status_code, detail |-> detail, name |-> "",
     arguments |-> <<>>]

\* return {"name": func_name, "arguments": json.dumps(arguments)}
Returns(func_name, arguments) ==
    [status_code |-> 200, detail |-> "", name |-> func_name,
     arguments |-> JsonDumps(arguments)]

\* An exception the handler does not catch: the server answers 500.
ServerError == HTTPException(500, "Internal Server Error")

\* The type mismatch reported with the status and text of "no match".
RuleResponseNotFound(rule, groups, limit) ==
    LET c == CoerceFrom(rule, groups, 1, <<>>, limit) IN
    IF c.exc \in {"ValueError", "IndexError"}
    THEN HTTPException(404, "No matching function found for the query")
    ELSE IF c.exc # "" THEN ServerError
    ELSE Returns(rule.func_name, c.arguments)

\* Lines 76-94: the rule matched, build the response from its groups.
RuleResponse(rule, groups, limit) ==
    LET c == CoerceFrom(rule, groups, 1, <<>>, limit) IN
    IF c.exc \in {"ValueError", "IndexError"}
    THEN HTTPException(400, "Parameter type mismatch")
    ELSE IF c.exc # "" THEN ServerError
    ELSE Returns(rule.func_name, c.arguments)

\* A scan that does not stop at a match: every rule is tried and the last
\* matching one decides.
ScanLastMatch(rules, i, q, limit, tried) ==
    LET matching == {k \in i..Len(rules) : PatternMatch(rules[k].pattern, q).ok}
        all      == tried \o [k \in 1..(Len(rules) - i + 1) |-> i + k - 1]
    IN  IF matching = {}
        THEN [response |-> HTTPException(404, "No matching function found for the query"),
              tried |-> all]
        ELSE LET k == CHOOSE m \in matching : \A o \in matching : o <= m
             IN  [response |-> RuleResponse(rules[k],
                                   PatternMatch(rules[k].pattern, q).groups, limit),
                  tried |-> all]

\* Lines 73-97: the scan of the table from rule i; tried lists the rules whose
\* pattern.match(q) has been called so far.
RECURSIVE ScanFrom(_, _, _, _, _)
ScanFrom(rules, i, q, limit, tried) ==
    IF i > Len(rules)
    THEN [response |-> HTTPException(404, "No matching function found for the query"),
          tried |-> tried]
    ELSE LET match == PatternMatch(rules[i].pattern, q) IN
         IF match.ok
         THEN [response |-> RuleResponse(rules[i], match.groups, limit),
               tried |-> Append(tried, i)]
         ELSE ScanFrom(rules, i + 1, q, limit, Append(tried, i))

\* The handler with "if not q" for "if q is None".
execute_query_falsy(rules, q, limit) ==
    IF ~q.some \/ q.s = <<>>
    THEN [response |-> HTTPException(400, "Missing query parameter 'q'"),
          tried |-> <<>>]
    ELSE ScanFrom(rules, 1, q.s, limit, <<>>)

\* execute_query(q) as a function of the table and the interpreter's limit.
execute_query(rules, q, limit) ==
    IF ~q.some
    THEN [response |-> HTTPException(400, "Missing query parameter 'q'"),
          tried |-> <<>>]
    ELSE ScanFrom(rules, 1, q.s, limit, <<>>)

---------------------------------------------------------------------------
(* The queries the clients send.                                           *)

MaxDigits == 2

MaxText == 2

MaxArgLen == 2

NumConnections == 2

\* All strings over chars of length at most n.
Strings(chars, n) == UNION {[1..k -> chars] : k \in 0..n}

\* A digit string one digit longer than the interpreter's default limit.
LongDigits == [i \in 1..(IntMaxStrDigits + 1) |-> "1"]

\* What a client may write where a pattern has a capture group.
IntLits == Strings({"0", "7", "x"}, MaxDigits) \cup {LongDigits}

YearLits == {<<"2", "0", "2", "5">>, <<"0", "2", "5">>, <<"2", "0", "2", "5", "7">>}

DateLits == {<<"2", "-", "1">>, <<"x">>}

TimeLits == {<<"1", ":", "0">>, <<>>}

TextLits == Strings({"A", ".", "\n"}, MaxText)

\* The pattern with lits[g] written in place of its g-th group.
RECURSIVE FillFrom(_, _, _, _)
FillFrom(items, k, lits, g) ==
    IF k > Len(items) THEN <<>>
    ELSE IF items[k].kind = "lit"
    THEN items[k].text \o FillFrom(items, k + 1, lits, g)
    ELSE lits[g] \o FillFrom(items, k + 1, lits, g + 1)

Fill(rule, lits) == FillFrom(rule.pattern, 1, lits, 1)

Built(i, lits) == [rule |-> i, lits |-> lits, text |-> Fill(DefaultRules[i], lits)]

\* Queries written after the five default patterns, and two that follow none.
DefaultQueries ==
    {Built(1, <<n>>) : n \in IntLits}
    \cup {Built(2, <<d, t, m>>) : d \in DateLits, t \in TimeLits, m \in TextLits}
    \cup {Built(3, <<n>>) : n \in IntLits}
    \cup {Built(4, <<n, y>>) : n \in IntLits, y \in YearLits}
    \cup {Built(5, <<n, m>>) : n \in IntLits, m \in TextLits}
    \cup {[rule |-> 0, lits |-> <<>>, text |-> <<>>],
          [rule |-> 0, lits |-> <<>>, text |-> <<"M", "a", "k", "e">>]}

\* What a client may write after a query.
Tails ==
    {<<>>, <<" ", "h">>, <<".">>, <<"B", ".">>, <<"\n", ".">>, TextDepartment}

---------------------------------------------------------------------------
(* Rule tables other than the default one.                                 *)

TextGet == <<"G", "e", "t", " ">>

CustomRules ==
    {Rule(<<Lit(TextGet), Group("\\d", "+")>>,
          "get_by_id", <<"id">>, <<"int">>),
     Rule(<<Lit(TextGet), Group(".", "*")>>,
          "get_by_name", <<"name">>, <<"str">>),
     Rule(<<Lit(TextGet), Group(".", "*")>>,
          "get_by_number", <<"number">>, <<"int">>),
     Rule(<<Lit(TextGet), Group("\\d", "+")>>,
          "get_two", <<"first", "second">>, <<"int", "int">>),
     Rule(<<Lit(TextGet), Group("\\d", "+"), Lit(<<" ">>), Group(".", "*")>>,
          "get_first", <<"first">>, <<"int">>),
     Rule(<<Lit(TextGet), Group("\\d", "+"), Lit(<<" ">>), Group(".", "*")>>,
          "get_pair", <<"first", "second">>, <<"int">>),
     Rule(<<Lit(TextGet), Group("\\d", "+")>>,
          "get_typed", <<"id">>, <<"int", "str">>),
     Rule(<<Lit(TextGet), OptGroup("\\d", "+"), Lit(<<"!">>)>>,
          "get_maybe", <<"id">>, <<"int">>),
     Rule(<<Lit(TextGet), OptGroup("\\d", "+"), Lit(<<"!">>)>>,
          "get_maybe_name", <<"name">>, <<"str">>)}

\* Tables of one or two custom rules, and the default table.
RuleTables ==
    {<<a>> : a \in CustomRules}
    \cup {<<a, b>> : a \in CustomRules, b \in CustomRules}
    \cup {DefaultRules}

CustomQueries ==
    {TextGet \o s : s \in Strings({"7", " ", "!", "x"}, MaxArgLen)}
    \cup {TextGet \o <<"-", "7">>, TextGet \o <<"7", "_", "0">>,
          <<>>, <<"G", "e", "t">>,
          Fill(TicketRule, <<<<"0", "7">>>>),
          Fill(MeetingRule, <<<<"2", "-", "1">>, <<"1", ":", "0">>, <<"A">>>>),
          Fill(IssueRule, <<<<"7">>, <<"x">>>>)}

\* The queries of the concurrent clients.
SharedQueries ==
    {Fill(TicketRule, <<<<"0", "7">>>>),
     Fill(ExpenseRule, <<<<"7">>>>),
     Fill(MeetingRule, <<<<"2", "-", "1">>, <<"1", ":", "0">>, <<"A">>>>),
     <<"M", "a", "k", "e">>}

---------------------------------------------------------------------------
(* The server: one request at a time per connection.  The handler is a     *)
(* coroutine without an await, so each call of it is one step.             *)

NoResponse == HTTPException(0, "")

Idle ==
    [state |-> "idle", q |-> None, base |-> <<>>, tail |-> <<>>,
     response |-> NoResponse, tried |-> <<>>]

\* GET /execute?q=base+tail arrives on connection r; base and tail record how
\* the client put the query together.
Receive(r, base, tail) ==
    /\ requests[r].state = "idle"
    /\ requests' = [requests EXCEPT ![r] =
                       [Idle EXCEPT !.state = "received",
                                    !.q = Some(base \o tail),
                                    !.base = base, !.tail = tail]]
    /\ UNCHANGED <<FUNCTION_RULES, int_max_str_digits>>

\* GET /execute without a q parameter: Query(None) gives q = None.
ReceiveWithoutQuery(r) ==
    /\ requests[r].state = "idle"
    /\ requests' = [requests EXCEPT ![r] = [Idle EXCEPT !.state = "received"]]
    /\ UNCHANGED <<FUNCTION_RULES, int_max_str_digits>>

\* A handler that moves the rule it used to the front of the table.
ExecuteQueryMoveToFront(r) ==
    /\ requests[r].state = "received"
    /\ LET out  == execute_query(FUNCTION_RULES, requests[r].q, int_max_str_digits)
           used == out.tried[Len(out.tried)]
       IN  /\ requests' = [requests EXCEPT ![r].state = "responded",
                                           ![r].response = out.response,
                                           ![r].tried = out.tried]
           /\ FUNCTION_RULES' =
                  IF out.response.status_code = 200
                  THEN <<FUNCTION_RULES[used]>>
                       \o SelectSeq(FUNCTION_RULES,
                                    LAMBDA rule : rule # FUNCTION_RULES[used])
                  ELSE FUNCTION_RULES
    /\ UNCHANGED int_max_str_digits

\* The handler runs on the request of connection r.
ExecuteQuery(r) ==
    /\ requests[r].state = "received"
    /\ LET out == execute_query(FUNCTION_RULES, requests[r].q, int_max_str_digits)
       IN  requests' = [requests EXCEPT ![r].state = "responded",
                                        ![r].response = out.response,
                                        ![r].tried = out.tried]
    /\ UNCHANGED <<FUNCTION_RULES, int_max_str_digits>>

\* The response has been sent; the connection is free for the next request.
Close(r) ==
    /\ requests[r].state = "responded"
    /\ requests' = [requests EXCEPT ![r] = Idle]
    /\ UNCHANGED <<FUNCTION_RULES, int_max_str_digits>>

\* The default table, one connection, the queries written after its patterns.
Init ==
    /\ FUNCTION_RULES = DefaultRules
    /\ int_max_str_digits \in {0, IntMaxStrDigits}
    /\ requests = [r \in {1} |-> Idle]

Next ==
    \E r \in {1} :
        \/ \E b \in DefaultQueries, t \in Tails : Receive(r, b.text, t)
        \/ ReceiveWithoutQuery(r)
        \/ ExecuteQuery(r)
        \/ Close(r)

Spec == Init /\ [][Next]_vars

\* Any of the rule tables, one connection.
InitTables ==
    /\ FUNCTION_RULES \in RuleTables
    /\ int_max_str_digits \in {0, IntMaxStrDigits}
    /\ requests = [r \in {1} |-> Idle]

NextTables ==
    \E r \in {1} :
        \/ \E q \in CustomQueries : Receive(r, q, <<>>)
        \/ ReceiveWithoutQuery(r)
        \/ ExecuteQuery(r)
        \/ Close(r)

SpecTables == InitTables /\ [][NextTables]_vars

\* The default table, several connections served in any order.
InitConcurrent ==
    /\ FUNCTION_RULES = DefaultRules
    /\ int_max_str_digits \in {0, IntMaxStrDigits}
    /\ requests = [r \in 1..NumConnections |-> Idle]

NextConcurrent ==
    \E r \in 1..NumConnections :
        \/ \E q \in SharedQueries, t \in {<<>>, <<".">>} : Receive(r, q, t)
        \/ ReceiveWithoutQuery(r)
        \/ ExecuteQuery(r)
        \/ Close(r)

SpecConcurrent == InitConcurrent /\ [][NextConcurrent]_vars

---------------------------------------------------------------------------
(* Properties.                                                             *)

Connections == DOMAIN requests

Responded(r) == requests[r].state = "responded"

MissingQuery == HTTPException(400, "Missing query parameter 'q'")

TypeMismatch == HTTPException(400, "Parameter type mismatch")

NotFound == HTTPException(404, "No matching function found for the query")

\* The rules of the table whose pattern matches q at offset 0.
Matching(rules, q) ==
    {i \in 1..Len(rules) : PatternMatch(rules[i].pattern, q).ok}

Lowest(S) == CHOOSE i \in S : \A j \in S : i <= j

GroupItems(pattern) == SelectSeq(pattern, LAMBDA it : it.kind = "group")

\* The integer a digit string denotes, and the numeral of a natural number.
DigitString == <<"0", "1", "2", "3", "4", "5", "6", "7", "8", "9">>

DigitValue(c) == (CHOOSE n \in 1..10 : DigitString[n] = c) - 1

RECURSIVE NatOf(_)
NatOf(s) ==
    IF s = <<>> THEN 0
    ELSE 10 * NatOf(SubSeq(s, 1, Len(s) - 1)) + DigitValue(s[Len(s)])

RECURSIVE NumeralOf(_)
NumeralOf(n) ==
    IF n < 10 THEN <<DigitString[n + 1]>>
    ELSE NumeralOf(n \div 10) \o <<DigitString[(n % 10) + 1]>>

\* The numeral of the integer that the digit string lit denotes.  The long
\* digit strings of the queries have no leading zero and are their own numeral.
ExpectedInt(lit) ==
    IF Len(lit) <= 9 THEN NumeralOf(NatOf(lit)) ELSE lit

\* lit is a valid literal for the capture group: it has a length the
\* quantifier accepts and only characters of the group's class.
ValidLit(item, lit) ==
    /\ Len(lit) >= QuantMin(item.quant)
    /\ item.quant = "{4}" => Len(lit) = 4
    /\ \A k \in 1..Len(lit) : InClass(item.cls, lit[k])

ValidQueries ==
    {b \in DefaultQueries :
        /\ b.rule > 0
        /\ \A g \in 1..Len(b.lits) :
              ValidLit(GroupItems(DefaultRules[b.rule].pattern)[g], b.lits[g])}

\* The mapping expected for a query built from rule b.rule: integers by
\* value, strings as written.
ExpectedArguments(b) ==
    LET rule == DefaultRules[b.rule] IN
    [g \in 1..Len(rule.arg_names) |->
        [key   |-> rule.arg_names[g],
         value |-> IF rule.arg_types[g] = "int"
                   THEN PyValue("int", ExpectedInt(b.lits[g]))
                   ELSE PyValue("str", b.lits[g])]]

ExpectedSuccess(b) ==
    Returns(DefaultRules[b.rule].func_name, ExpectedArguments(b))

\* Every integer literal of the built query is within the interpreter's limit.
WithinIntLimit(b) ==
    \/ int_max_str_digits = 0
    \/ \A g \in 1..Len(b.lits) :
          DefaultRules[b.rule].arg_types[g] = "int"
              => Len(b.lits[g]) <= int_max_str_digits

\* C1 as stated: every query built by writing valid literals into a default
\* rule's pattern is answered with Success, the rule's function name and the
\* arguments in declared order, integers converted, strings unmodified.
C1_BuiltQuerySucceeds ==
    \A r \in Connections : Responded(r) =>
        \A b \in ValidQueries :
            requests[r].q = Some(b.text)
                => requests[r].response = ExpectedSuccess(b)

\* C1 amended: the same, for integer literals of no more digits than the
\* interpreter's limit for converting a string to an int.
C1_BuiltQueryWithinLimitSucceeds ==
    \A r \in Connections : Responded(r) =>
        \A b \in ValidQueries :
            (requests[r].q = Some(b.text) /\ WithinIntLimit(b))
                => requests[r].response = ExpectedSuccess(b)

C1_Witness ==
    \E r \in Connections :
        /\ Responded(r)
        /\ requests[r].q =
               Some(Fill(BonusRule, <<<<"0", "7">>, <<"2", "0", "2", "5">>>>))
        /\ requests[r].response.status_code = 200
        /\ requests[r].response.name = "calculate_performance_bonus"

\* C2 as stated: a query that is absent, missing or the empty string is
\* answered 400 "Missing query parameter 'q'" and no pattern is matched
\* against it.
C2_AbsentOrEmptyIsMissing ==
    \A r \in Connections : Responded(r) =>
        ((~requests[r].q.some \/ requests[r].q.s = <<>>)
            => /\ requests[r].response = MissingQuery
               /\ requests[r].tried = <<>>)

\* C2 amended: an absent query (None) is answered 400 "Missing query
\* parameter 'q'" and no pattern is matched against it; a query that is
\* present, the empty string included, is scanned against the table and is
\* never answered with that message.
C2_OnlyAbsentIsMissing ==
    \A r \in Connections : Responded(r) =>
        /\ ~requests[r].q.some
              => /\ requests[r].response = MissingQuery
                 /\ requests[r].tried = <<>>
        /\ requests[r].q.some
              => /\ requests[r].response # MissingQuery
                 /\ requests[r].tried # <<>>

C2_Witness ==
    \E r \in Connections :
        /\ Responded(r)
        /\ ~requests[r].q.some
        /\ requests[r].response.status_code = 400

\* The response to the query the client started from, before the tail.
BaseResponse(r) ==
    execute_query(FUNCTION_RULES, Some(requests[r].base),
                  int_max_str_digits).response

\* The rule captures free text: one of its groups is (.*).
CapturesFreeText(rule) ==
    \E k \in 1..Len(rule.pattern) :
        rule.pattern[k].kind = "group" /\ rule.pattern[k].cls = "."

\* C5 as stated: when a default rule matches q, q followed by any suffix is
\* answered with Success and the same function name and argument values as q.
C5_SuffixIgnored ==
    \A r \in Connections : (Responded(r) /\ requests[r].q.some) =>
        (Matching(FUNCTION_RULES, requests[r].base) # {}
            => /\ requests[r].response.status_code = 200
               /\ requests[r].response = BaseResponse(r))

\* C5 amended: when q is answered with Success, q followed by any suffix is
\* answered with Success and the same function name; the argument values are
\* the same too when the rule captures no free text (rules 1, 3 and 4) or the
\* suffix holds no "." character.
C5_SuffixKeepsFunction ==
    \A r \in Connections : (Responded(r) /\ requests[r].q.some) =>
        LET alone == BaseResponse(r)
            i     == Lowest(Matching(FUNCTION_RULES, requests[r].base))
        IN  alone.status_code = 200
            => /\ requests[r].response.status_code = 200
               /\ requests[r].response.name = alone.name
               /\ (\/ ~CapturesFreeText(FUNCTION_RULES[i])
                   \/ \A k \in 1..Len(requests[r].tail) : requests[r].tail[k] # ".")
                     => requests[r].response = alone

C5_Witness ==
    \E r \in Connections :
        /\ Responded(r)
        /\ requests[r].base =
               Fill(MeetingRule, <<<<"2", "-", "1">>, <<"1", ":", "0">>, <<"A">>>>)
        /\ requests[r].tail = <<" ", "h">>
        /\ requests[r].response.status_code = 200
        /\ requests[r].response = BaseResponse(r)

\* Every rule of the table has one capture group per argument name and type.
WellFormedTable(rules) ==
    \A i \in 1..Len(rules) :
        /\ Len(GroupItems(rules[i].pattern)) = Len(rules[i].arg_names)
        /\ Len(rules[i].arg_names) = Len(rules[i].arg_types)

\* The captures that rule i takes as integers from q.
IntCaptures(rules, i, q) ==
    LET groups == PatternMatch(rules[i].pattern, q).groups IN
    {groups[g] : g \in {h \in 1..Len(groups) : rules[i].arg_types[h] = "int"}}

AllDigits(s) == s # <<>> /\ \A k \in 1..Len(s) : s[k] \in DigitChars

\* C9 as stated: with the default table the type mismatch is unreachable:
\* the rules have as many groups as names and types, and whenever a rule
\* matches the request ends in Success.
C9_MismatchUnreachable ==
    /\ WellFormedTable(FUNCTION_RULES)
    /\ \A r \in Connections : (Responded(r) /\ requests[r].q.some) =>
          /\ requests[r].response # TypeMismatch
          /\ Matching(FUNCTION_RULES, requests[r].q.s) # {}
                => requests[r].response.status_code = 200

\* C9 amended: with the default table the rules have as many groups as names
\* and types and every integer capture is a non-empty digit string; a matched
\* request ends in Success whenever its integer captures have no more digits
\* than the interpreter's limit for converting a string to an int (4300 by
\* default), and only a longer capture gives the type mismatch.
C9_MismatchOnlyBeyondLimit ==
    /\ WellFormedTable(FUNCTION_RULES)
    /\ \A r \in Connections : (Responded(r) /\ requests[r].q.some) =>
          LET q == requests[r].q.s
              M == Matching(FUNCTION_RULES, q)
              within(i) ==
                  \/ int_max_str_digits = 0
                  \/ \A c \in IntCaptures(FUNCTION_RULES, i, q) :
                        Len(c.s) <= int_max_str_digits
          IN  /\ \A i \in M :
                    /\ \A c \in IntCaptures(FUNCTION_RULES, i, q) :
                          c.some /\ AllDigits(c.s)
                    /\ within(i) => requests[r].response.status_code = 200
              /\ requests[r].response = TypeMismatch
                    => \E i \in M : ~within(i)

C9_Witness ==
    \E r \in Connections :
        /\ Responded(r)
        /\ requests[r].q = Some(Fill(IssueRule, <<<<"0", "7">>, <<"A">>>>))
        /\ requests[r].response.status_code = 200

\* The table in the opposite order.
Reversed(rules) == [i \in 1..Len(rules) |-> rules[Len(rules) + 1 - i]]

\* C10: at most one of the five default patterns matches a query, and the
\* response is the one the table gives in the opposite order.
C10_NoOverlap ==
    \A r \in Connections : (Responded(r) /\ requests[r].q.some) =>
        /\ Cardinality(Matching(FUNCTION_RULES, requests[r].q.s)) <= 1
        /\ requests[r].response =
               execute_query(Reversed(FUNCTION_RULES), requests[r].q,
                             int_max_str_digits).response

C10_Witness ==
    \E r \in Connections :
        /\ Responded(r)
        /\ requests[r].q.some
        /\ Matching(FUNCTION_RULES, requests[r].q.s) = {4}
        /\ requests[r].response.name = "calculate_performance_bonus"

\* The response of the table that holds rule i of rules alone.
ResponseOfRule(rules, i, q) ==
    execute_query(<<rules[i]>>, q, int_max_str_digits).response

\* C3: when two or more rules of the table match the query, the response is
\* the one the matching rule of smallest index produces, and no rule after
\* that one has been tried.
C3_FirstMatchWins ==
    \A r \in Connections : (Responded(r) /\ requests[r].q.some) =>
        LET M == Matching(FUNCTION_RULES, requests[r].q.s) IN
        Cardinality(M) >= 2
            => /\ requests[r].response =
                      ResponseOfRule(FUNCTION_RULES, Lowest(M), requests[r].q)
               /\ requests[r].tried = [k \in 1..Lowest(M) |-> k]

C3_Witness ==
    \E r \in Connections :
        /\ Responded(r)
        /\ requests[r].q.some
        /\ Matching(FUNCTION_RULES, requests[r].q.s) = {1, 2}
        /\ requests[r].response = TypeMismatch
        /\ ResponseOfRule(FUNCTION_RULES, 2, requests[r].q).status_code = 200

\* C4: a present query is answered 404 "No matching function found for the
\* query" exactly when no rule of the table matches it at offset 0, and then
\* every rule has been tried in table order.
C4_NotFoundIffNoMatch ==
    \A r \in Connections : (Responded(r) /\ requests[r].q.some) =>
        /\ requests[r].response = NotFound
              <=> Matching(FUNCTION_RULES, requests[r].q.s) = {}
        /\ requests[r].response.status_code = 404
              <=> requests[r].response = NotFound
        /\ requests[r].response = NotFound
              => requests[r].tried = [k \in 1..Len(FUNCTION_RULES) |-> k]

C4_Witness ==
    \E r \in Connections :
        /\ Responded(r)
        /\ requests[r].q = Some(<<"G", "e", "t">>)
        /\ Len(FUNCTION_RULES) = 2
        /\ requests[r].response = NotFound
        /\ requests[r].tried = <<1, 2>>

\* A capture of rule i that its declared type does not accept.
HasUncoercibleCapture(rule, groups) ==
    \E g \in 1..Len(groups) :
        /\ g <= Len(rule.arg_types)
        /\ ApplyType(rule.arg_types[g], groups[g], int_max_str_digits).exc # ""

\* C6: when the first matching rule has a capture that its declared type does
\* not accept, or a number of capture groups other than the number of its
\* argument names or of its argument types, the response is 400 "Parameter
\* type mismatch" and no later rule has been tried.
C6_MismatchOnBadRule ==
    \A r \in Connections : (Responded(r) /\ requests[r].q.some) =>
        LET M == Matching(FUNCTION_RULES, requests[r].q.s) IN
        M # {} =>
            LET rule   == FUNCTION_RULES[Lowest(M)]
                groups == PatternMatch(rule.pattern, requests[r].q.s).groups
            IN  (\/ HasUncoercibleCapture(rule, groups)
                 \/ Len(groups) # Len(rule.arg_names)
                 \/ Len(groups) # Len(rule.arg_types))
                    => /\ requests[r].response = TypeMismatch
                       /\ requests[r].tried = [k \in 1..Lowest(M) |-> k]

\* The keys of a JSON text written by json.dumps, in order.
JsonKeys(text, names) ==
    SelectSeq(text, LAMBDA piece : \E n \in 1..Len(names) : names[n] = piece)

\* C7: every request ends with Success (200, one function name of the table
\* and a mapping with all of that rule's arguments), MissingQuery (400),
\* TypeMismatch (400) or NoMatch (404), and with nothing else.
C7_FourOutcomes ==
    \A r \in Connections : Responded(r) =>
        \/ requests[r].response \in {MissingQuery, TypeMismatch, NotFound}
        \/ /\ requests[r].response.status_code = 200
           /\ \E i \in 1..Len(FUNCTION_RULES) :
                 /\ requests[r].response.name = FUNCTION_RULES[i].func_name
                 /\ JsonKeys(requests[r].response.arguments,
                             FUNCTION_RULES[i].arg_names)
                        = FUNCTION_RULES[i].arg_names

\* C8: the rule table keeps its initial value, every response is the one the
\* initial table gives for the query alone, and two requests with the same
\* query are answered alike.
C8_TableImmutable ==
    /\ FUNCTION_RULES = DefaultRules
    /\ \A r \in Connections : Responded(r) =>
          requests[r].response =
              execute_query(DefaultRules, requests[r].q, int_max_str_digits).response
    /\ \A r1 \in Connections, r2 \in Connections :
          (Responded(r1) /\ Responded(r2) /\ requests[r1].q = requests[r2].q)
              => requests[r1].response = requests[r2].response

C8_Witness ==
    \E r1 \in Connections, r2 \in Connections :
        /\ r1 # r2
        /\ Responded(r1) /\ Responded(r2)
        /\ requests[r1].q = requests[r2].q
        /\ requests[r1].response.status_code = 200

=============================================================================
